---- MODULE Spec2Model ----
(***************************************************************************)
(* A model of the fastbreak event dashboard: the Session Gate              *)
(* (src/middleware.ts), the auth actions and the event store operations    *)
(* (src/app/actions/auth.ts) running against the hosted relational store   *)
(* (tables events and venues), and the event form (EventForm).             *)
(*                                                                         *)
(* Every asynchronous handler is cut at its awaits on the store: one       *)
(* action per store round trip.  A round trip either reports an error and  *)
(* changes nothing, or takes effect.                                       *)
(***************************************************************************)
EXTENDS Integers, Sequences, FiniteSets, TLC

VARIABLES
    events,       \* rows of table events
    venues,       \* rows of table venues
    nextEventId,  \* the next identifier the store hands to an inserted event
    nextVenueId,  \* the next identifier the store hands to an inserted venue
    call,         \* per request handler: the store operation in flight
    config,       \* what runs in this configuration: handlers, callers, inputs,
                  \* and the identifiers the store hands out
    lastCall,     \* history: the call that returned last, and what it left
    gate,         \* the request in front of the Session Gate and its response
    auth,         \* the auth action in flight and its outcome
    form,         \* the event form: its values and what its submit did
    nav           \* a browser navigation: the path asked for and the hops so far

vars == <<events, venues, nextEventId, nextVenueId, call, config, lastCall, gate, auth, form, nav>>

\* The browser-facing parts: the gate, the auth actions, the event form, the
\* navigation.
frontVars == <<gate, auth, form, nav>>

storeVars == <<events, venues, nextEventId, nextVenueId>>

-----------------------------------------------------------------------------
(* Bounds of the model *)

MaxEvents == 1        \* event rows ever inserted
MaxVenueRows == 3     \* venue rows ever inserted
MaxPathLen == 3       \* tokens of a request path

-----------------------------------------------------------------------------
(* Values *)

Null == "null"              \* JavaScript null, SQL NULL
Undefined == "undefined"    \* an optional field that is absent
NoUser == "nobody"          \* data.user of getUser() when there is no session

Users == {"u1", "u2"}

Procs == {"p1", "p2"}

\* A session credential as the auth service judges it: a valid one resolves to
\* its user, an absent one and one whose check fails resolve to no user.
Sessions ==
    [cred : {"valid"}, user : Users]
        \cup [cred : {"absent", "failed"}, user : {NoUser}]

\* supabase.auth.getUser(): data.user; the error of a failed check is dropped.
GetUser(session) ==
    IF session.cred = "valid" THEN session.user ELSE NoUser

\* Names are sequences of characters.
Summer == <<"S", "u", "m">>
Hoops == <<"H", "o", "o", "p", "s">>
CourtA == <<"A">>
CourtB == <<"B">>

\* The venues arrays submitted: none, one venue without an address, two venues
\* of which one has an address and one an empty address.
VenueLists ==
    {<<>>,
     << [name |-> CourtA, address |-> Undefined] >>,
     << [name |-> CourtA, address |-> "addr"], [name |-> CourtB, address |-> ""] >>}

\* CreateEventInput: the description is absent, a text, or empty.
EventInputs ==
    {[name |-> Summer, sport_type |-> "Basketball", date_time |-> 1,
      description |-> Undefined, venues |-> vs] : vs \in VenueLists}
        \cup
    {[name |-> Hoops, sport_type |-> "Soccer", date_time |-> 2,
      description |-> "text", venues |-> vs] : vs \in VenueLists}
        \cup
    {[name |-> Hoops, sport_type |-> "Basketball", date_time |-> 2,
      description |-> "", venues |-> vs] : vs \in VenueLists}

EventIds == 1..MaxEvents

\* The readings of a clock: new Date() on the server, now() in the store.
Times == {1, 2}

AuthError == "auth: invalid credential"

\* supabase.auth.getUser(): the error beside data.user.  createEvent reads
\* data.user only.
GetUserError(session) ==
    IF session.cred = "failed" THEN AuthError ELSE Null

-----------------------------------------------------------------------------
(* The relational store *)

\* x || null
OrNull(x) == IF x = Undefined \/ x = "" THEN Null ELSE x

\* The row-level policy of the store: a row of events is visible to, and may
\* be changed by, its owner only.
RowPolicy(uid, e) == uid # NoUser /\ e.user_id = uid

\* The venues of one event.
VenuesOf(id) == {v \in venues : v.event_id = id}

Joined_NoVenues(e) == [event |-> e, venues |-> {}]

\* select('*, venues (*)'): an event row with its venues nested.
Joined(e) == [event |-> e, venues |-> VenuesOf(e.id)]

HasVenues_Always(input) == TRUE

\* input.venues.length > 0
HasVenues(input) == Len(input.venues) > 0

VenuesData_FirstOnly(event_id, vs) ==
    [i \in 1..(IF Len(vs) > 0 THEN 1 ELSE 0) |->
        [event_id |-> event_id, name |-> vs[i].name, address |-> OrNull(vs[i].address)]]

\* venuesData: the rows createEvent and updateEvent hand to the venues insert.
VenuesData(event_id, vs) ==
    [i \in 1..Len(vs) |->
        [event_id |-> event_id, name |-> vs[i].name, address |-> OrNull(vs[i].address)]]

\* The store stamps each inserted row with a fresh identifier.
InsertedVenues(data, base) ==
    {[id |-> base + i - 1, event_id |-> data[i].event_id,
      name |-> data[i].name, address |-> data[i].address] : i \in 1..Len(data)}

NewEventRow_NoOwner(id, uid, input, t) ==
    [id |-> id, user_id |-> NoUser, name |-> input.name, sport_type |-> input.sport_type,
     date_time |-> input.date_time, description |-> OrNull(input.description),
     updated_at |-> t]

\* The row createEvent inserts into events; the store stamps updated_at.
NewEventRow(id, uid, input, t) ==
    [id |-> id, user_id |-> uid, name |-> input.name, sport_type |-> input.sport_type,
     date_time |-> input.date_time, description |-> OrNull(input.description),
     updated_at |-> t]

UpdatedEventRow_KeepsName(e, input, t) ==
    [id |-> e.id, user_id |-> e.user_id, name |-> e.name,
     sport_type |-> input.sport_type, date_time |-> input.date_time,
     description |-> OrNull(input.description), updated_at |-> t]

\* The row updateEvent leaves in events; updated_at is new Date() of the server.
UpdatedEventRow(e, input, t) ==
    [id |-> e.id, user_id |-> e.user_id, name |-> input.name,
     sport_type |-> input.sport_type, date_time |-> input.date_time,
     description |-> OrNull(input.description), updated_at |-> t]

-----------------------------------------------------------------------------
(* Results of the store operations: ActionResponse *)

Success(data) == [success |-> TRUE, data |-> data]
Failure(msg) == [success |-> FALSE, error |-> msg]

NotAuthenticated == "User not authenticated"
EventError == "events: remote error"
VenuesError == "venues: remote error"
DeleteError == "venues delete: remote error"
NoRowError == "JSON object requested, multiple (or no) rows returned"
ForeignKeyError == "venues: foreign key violation"

NoEvent == [id |-> 0]
NoInput == [venues |-> <<>>]

IdleCall ==
    [pc |-> "idle", op |-> "none", cred |-> "unchecked", user |-> NoUser, input |-> NoInput,
     id |-> 0, search |-> [present |-> FALSE, text |-> <<>>], sport |-> Undefined,
     event |-> NoEvent, result |-> Failure("pending"),
     revalidated |-> FALSE]

\* handleAction: the action ran to its end, data goes back.
Returned(c, data, revalidated) ==
    [c EXCEPT !.pc = "done", !.result = Success(data), !.revalidated = revalidated]

Unexpected == "An unexpected error occurred"

Threw_Unexpected(c, msg) ==
    [c EXCEPT !.pc = "done", !.result = Failure(Unexpected)]

\* handleAction: the action threw, the message goes back.
Threw(c, msg) ==
    [c EXCEPT !.pc = "done", !.result = Failure(msg)]

\* A call begins: createClient() binds the caller's session cookie, and the
\* store sees the user it resolves to.  Only createEvent calls getUser() and
\* so meets the state of the credential itself.
Begin(op, session, input, id) ==
    [IdleCall EXCEPT !.op = op, !.cred = IF op = "create" THEN session.cred ELSE "unchecked",
                     !.user = GetUser(session), !.input = input, !.id = id]

-----------------------------------------------------------------------------
(* createEvent *)

CreateEvent_NoUser_InsertsAnyway(p) ==
    /\ call[p].pc = "idle"
    /\ nextEventId \in config.ids
    /\ \E s \in config.sessions, input \in config.inputs, t \in Times :
        LET row == NewEventRow(nextEventId, GetUser(s), input, t)
        IN  /\ GetUser(s) = NoUser
            /\ events' = events \cup {row}
            /\ nextEventId' = nextEventId + 1
            /\ call' = [call EXCEPT ![p] =
                  Returned([Begin("create", s, input, 0) EXCEPT !.event = row], row, TRUE)]
    /\ UNCHANGED <<venues, nextVenueId, config, lastCall, frontVars>>

\* createEvent, the caller has no session: getUser() yields no user.
CreateEvent_NoUser(p) ==
    /\ call[p].pc = "idle"
    /\ \E s \in config.sessions, input \in config.inputs :
        /\ GetUser(s) = NoUser
        /\ call' = [call EXCEPT ![p] = Threw(Begin("create", s, input, 0), NotAuthenticated)]
    /\ UNCHANGED <<storeVars, config, lastCall, frontVars>>

\* createEvent, the caller has a session: the insert into events.
CreateEvent_InsertEvent(p) ==
    /\ call[p].pc = "idle"
    /\ \E s \in config.sessions, input \in config.inputs, t \in Times :
        LET c == Begin("create", s, input, 0)
            row == NewEventRow(nextEventId, GetUser(s), input, t)
        IN  /\ GetUser(s) # NoUser
            /\ \/ /\ call' = [call EXCEPT ![p] = Threw(c, EventError)]
                  /\ UNCHANGED storeVars
               \/ /\ nextEventId \in config.ids
                  /\ nextVenueId + Len(input.venues) - 1 <= MaxVenueRows
                  /\ events' = events \cup {row}
                  /\ nextEventId' = nextEventId + 1
                  /\ UNCHANGED <<venues, nextVenueId>>
                  /\ call' = [call EXCEPT ![p] =
                        IF HasVenues(input)
                        THEN [c EXCEPT !.pc = "createVenues", !.event = row]
                        ELSE Returned([c EXCEPT !.event = row], row, TRUE)]
    /\ UNCHANGED <<config, lastCall, frontVars>>

CreateEvent_InsertVenues_RollsBack(p) ==
    /\ call[p].pc = "createVenues"
    /\ LET c == call[p]
           data == VenuesData(c.event.id, c.input.venues)
       IN  \/ /\ call' = [call EXCEPT ![p] = Threw(c, VenuesError)]
              /\ events' = {e \in events : e.id # c.event.id}
              /\ UNCHANGED <<venues, nextEventId, nextVenueId>>
           \/ /\ \E e \in events : e.id = c.event.id
              /\ nextVenueId + Len(data) - 1 <= MaxVenueRows
              /\ venues' = venues \cup InsertedVenues(data, nextVenueId)
              /\ nextVenueId' = nextVenueId + Len(data)
              /\ UNCHANGED <<events, nextEventId>>
              /\ call' = [call EXCEPT ![p] = Returned(c, c.event, TRUE)]
    /\ UNCHANGED <<config, lastCall, frontVars>>

\* createEvent: the insert into venues.  The foreign key of venues rejects
\* rows of an event that is gone.
CreateEvent_InsertVenues(p) ==
    /\ call[p].pc = "createVenues"
    /\ LET c == call[p]
           data == VenuesData(c.event.id, c.input.venues)
       IN  \/ /\ call' = [call EXCEPT ![p] = Threw(c, VenuesError)]
              /\ UNCHANGED storeVars
           \/ /\ \A e \in events : e.id # c.event.id
              /\ call' = [call EXCEPT ![p] = Threw(c, ForeignKeyError)]
              /\ UNCHANGED storeVars
           \/ /\ \E e \in events : e.id = c.event.id
              /\ nextVenueId + Len(data) - 1 <= MaxVenueRows
              /\ venues' = venues \cup InsertedVenues(data, nextVenueId)
              /\ nextVenueId' = nextVenueId + Len(data)
              /\ UNCHANGED <<events, nextEventId>>
              /\ call' = [call EXCEPT ![p] = Returned(c, c.event, TRUE)]
    /\ UNCHANGED <<config, lastCall, frontVars>>

-----------------------------------------------------------------------------
(* updateEvent *)

UpdateTargets_AnyCaller(uid, id) == {e \in events : e.id = id}

\* update(...).eq('id', id).select().single(): the rows the caller may change.
UpdateTargets(uid, id) == {e \in events : e.id = id /\ RowPolicy(uid, e)}

UpdateEvent_Update_TakesOver(p) ==
    /\ call[p].pc = "idle"
    /\ \E s \in config.sessions, input \in config.inputs, id \in config.ids, t \in Times :
        LET c == Begin("update", s, input, id)
            targets == UpdateTargets(GetUser(s), id)
        IN  \/ /\ call' = [call EXCEPT ![p] = Threw(c, EventError)]
               /\ UNCHANGED storeVars
            \/ /\ targets = {}
               /\ call' = [call EXCEPT ![p] = Threw(c, NoRowError)]
               /\ UNCHANGED storeVars
            \/ /\ targets # {}
               /\ LET old == CHOOSE e \in targets : TRUE
                      row == [UpdatedEventRow(old, input, t) EXCEPT !.user_id = NoUser]
                  IN  /\ events' = (events \ targets) \cup {row}
                      /\ call' = [call EXCEPT ![p] = [c EXCEPT !.pc = "updateDelete", !.event = row]]
               /\ UNCHANGED <<venues, nextEventId, nextVenueId>>
    /\ UNCHANGED <<config, lastCall, frontVars>>

UpdateEvent_Update_IgnoresNoRow(p) ==
    /\ call[p].pc = "idle"
    /\ \E s \in config.sessions, input \in config.inputs, id \in config.ids, t \in Times :
        LET c == Begin("update", s, input, id)
            targets == UpdateTargets(GetUser(s), id)
        IN  \/ /\ call' = [call EXCEPT ![p] = Threw(c, EventError)]
               /\ UNCHANGED storeVars
            \/ /\ targets = {}
               /\ call' = [call EXCEPT ![p] = [c EXCEPT !.pc = "updateDelete"]]
               /\ UNCHANGED storeVars
            \/ /\ targets # {}
               /\ LET old == CHOOSE e \in targets : TRUE
                      row == UpdatedEventRow(old, input, t)
                  IN  /\ events' = (events \ targets) \cup {row}
                      /\ call' = [call EXCEPT ![p] = [c EXCEPT !.pc = "updateDelete", !.event = row]]
               /\ UNCHANGED <<venues, nextEventId, nextVenueId>>
    /\ UNCHANGED <<config, lastCall, frontVars>>

\* updateEvent: the update of the event row.
UpdateEvent_Update(p) ==
    /\ call[p].pc = "idle"
    /\ \E s \in config.sessions, input \in config.inputs, id \in config.ids, t \in Times :
        LET c == Begin("update", s, input, id)
            targets == UpdateTargets(GetUser(s), id)
        IN  \/ /\ call' = [call EXCEPT ![p] = Threw(c, EventError)]
               /\ UNCHANGED storeVars
            \/ /\ targets = {}
               /\ call' = [call EXCEPT ![p] = Threw(c, NoRowError)]
               /\ UNCHANGED storeVars
            \/ /\ targets # {}
               /\ LET old == CHOOSE e \in targets : TRUE
                      row == UpdatedEventRow(old, input, t)
                  IN  /\ events' = (events \ targets) \cup {row}
                      /\ call' = [call EXCEPT ![p] = [c EXCEPT !.pc = "updateDelete", !.event = row]]
               /\ UNCHANGED <<venues, nextEventId, nextVenueId>>
    /\ UNCHANGED <<config, lastCall, frontVars>>

VenueDeleteTargets_None(uid, id) == {}

\* delete().eq('event_id', id) on venues: the rows the caller may delete.
VenueDeleteTargets(uid, id) ==
    {v \in venues :
        /\ v.event_id = id
        /\ \E e \in events : e.id = v.event_id /\ RowPolicy(uid, e)}

UpdateEvent_DeleteVenues_KeepsOld(p) ==
    /\ call[p].pc = "updateDelete"
    /\ LET c == call[p]
       IN  \/ /\ call' = [call EXCEPT ![p] = Threw(c, DeleteError)]
              /\ UNCHANGED storeVars
           \/ /\ UNCHANGED storeVars
              /\ call' = [call EXCEPT ![p] =
                    IF HasVenues(c.input)
                    THEN [c EXCEPT !.pc = "updateVenues"]
                    ELSE Returned(c, c.event, TRUE)]
    /\ UNCHANGED <<config, lastCall, frontVars>>

\* updateEvent: the delete of the event's venues.
UpdateEvent_DeleteVenues(p) ==
    /\ call[p].pc = "updateDelete"
    /\ LET c == call[p]
       IN  \/ /\ call' = [call EXCEPT ![p] = Threw(c, DeleteError)]
              /\ UNCHANGED storeVars
           \/ /\ venues' = venues \ VenueDeleteTargets(c.user, c.id)
              /\ UNCHANGED <<events, nextEventId, nextVenueId>>
              /\ call' = [call EXCEPT ![p] =
                    IF HasVenues(c.input)
                    THEN [c EXCEPT !.pc = "updateVenues"]
                    ELSE Returned(c, c.event, TRUE)]
    /\ UNCHANGED <<config, lastCall, frontVars>>

UpdateEvent_InsertVenues_NoForeignKey(p) ==
    /\ call[p].pc = "updateVenues"
    /\ LET c == call[p]
           data == VenuesData(c.event.id, c.input.venues)
       IN  \/ /\ call' = [call EXCEPT ![p] = Threw(c, VenuesError)]
              /\ UNCHANGED storeVars
           \/ /\ nextVenueId + Len(data) - 1 <= MaxVenueRows
              /\ venues' = venues \cup InsertedVenues(data, nextVenueId)
              /\ nextVenueId' = nextVenueId + Len(data)
              /\ UNCHANGED <<events, nextEventId>>
              /\ call' = [call EXCEPT ![p] = Returned(c, c.event, TRUE)]
    /\ UNCHANGED <<config, lastCall, frontVars>>

\* updateEvent: the insert of the submitted venues.
UpdateEvent_InsertVenues(p) ==
    /\ call[p].pc = "updateVenues"
    /\ LET c == call[p]
           data == VenuesData(c.event.id, c.input.venues)
       IN  \/ /\ call' = [call EXCEPT ![p] = Threw(c, VenuesError)]
              /\ UNCHANGED storeVars
           \/ /\ \A e \in events : e.id # c.event.id
              /\ call' = [call EXCEPT ![p] = Threw(c, ForeignKeyError)]
              /\ UNCHANGED storeVars
           \/ /\ \E e \in events : e.id = c.event.id
              /\ nextVenueId + Len(data) - 1 <= MaxVenueRows
              /\ venues' = venues \cup InsertedVenues(data, nextVenueId)
              /\ nextVenueId' = nextVenueId + Len(data)
              /\ UNCHANGED <<events, nextEventId>>
              /\ call' = [call EXCEPT ![p] = Returned(c, c.event, TRUE)]
    /\ UNCHANGED <<config, lastCall, frontVars>>

-----------------------------------------------------------------------------
(* deleteEvent *)

DeleteTargets_AllOfCaller(uid, id) == {e \in events : RowPolicy(uid, e)}

\* delete().eq('id', id) on events: the rows the caller may delete.
DeleteTargets(uid, id) == {e \in events : e.id = id /\ RowPolicy(uid, e)}

Cascade_None(gone) == {}

\* ON DELETE CASCADE: the venues that go with the deleted events.
Cascade(gone) == {v \in venues : \E e \in gone : v.event_id = e.id}

DeleteEvent_RevalidatesAnyway(p) ==
    /\ call[p].pc = "idle"
    /\ \E s \in config.sessions, id \in config.ids :
        LET c == Begin("delete", s, NoInput, id)
            gone == DeleteTargets(GetUser(s), id)
        IN  \/ /\ call' = [call EXCEPT ![p] = [Threw(c, EventError) EXCEPT !.revalidated = TRUE]]
               /\ UNCHANGED storeVars
            \/ /\ events' = events \ gone
               /\ venues' = venues \ Cascade(gone)
               /\ UNCHANGED <<nextEventId, nextVenueId>>
               /\ call' = [call EXCEPT ![p] = Returned(c, Undefined, TRUE)]
    /\ UNCHANGED <<config, lastCall, frontVars>>

DeleteEvent_FailsOnNoRow(p) ==
    /\ call[p].pc = "idle"
    /\ \E s \in config.sessions, id \in config.ids :
        LET c == Begin("delete", s, NoInput, id)
            gone == DeleteTargets(GetUser(s), id)
        IN  \/ /\ call' = [call EXCEPT ![p] = Threw(c, EventError)]
               /\ UNCHANGED storeVars
            \/ /\ gone = {}
               /\ call' = [call EXCEPT ![p] = Threw(c, NoRowError)]
               /\ UNCHANGED storeVars
            \/ /\ gone # {}
               /\ events' = events \ gone
               /\ venues' = venues \ Cascade(gone)
               /\ UNCHANGED <<nextEventId, nextVenueId>>
               /\ call' = [call EXCEPT ![p] = Returned(c, Undefined, TRUE)]
    /\ UNCHANGED <<config, lastCall, frontVars>>

\* deleteEvent: the delete of the event row, which takes its venues along.
DeleteEvent(p) ==
    /\ call[p].pc = "idle"
    /\ \E s \in config.sessions, id \in config.ids :
        LET c == Begin("delete", s, NoInput, id)
            gone == DeleteTargets(GetUser(s), id)
        IN  \/ /\ call' = [call EXCEPT ![p] = Threw(c, EventError)]
               /\ UNCHANGED storeVars
            \/ /\ events' = events \ gone
               /\ venues' = venues \ Cascade(gone)
               /\ UNCHANGED <<nextEventId, nextVenueId>>
               /\ call' = [call EXCEPT ![p] = Returned(c, Undefined, TRUE)]
    /\ UNCHANGED <<config, lastCall, frontVars>>

-----------------------------------------------------------------------------
(* getEventById *)

\* select('*, venues (*)').eq('id', id).single()
SelectById(uid, id) ==
    LET rows == {e \in events : e.id = id /\ RowPolicy(uid, e)}
    IN  IF rows = {} THEN Failure(NoRowError)
        ELSE Success(Joined(CHOOSE e \in rows : TRUE))

GetEventById(p) ==
    /\ call[p].pc = "idle"
    /\ \E s \in config.sessions, id \in config.ids :
        LET c == Begin("get", s, NoInput, id)
        IN  \/ call' = [call EXCEPT ![p] = Threw(c, EventError)]
            \/ call' = [call EXCEPT ![p] = [c EXCEPT !.pc = "done", !.result = SelectById(GetUser(s), id)]]
    /\ UNCHANGED <<storeVars, config, lastCall, frontVars>>

-----------------------------------------------------------------------------
(* getEvents *)

\* An optional search text: absent, or a string (a sequence of characters).
NoSearch == [present |-> FALSE, text |-> <<>>]
SearchText(txt) == [present |-> TRUE, text |-> txt]

SearchTexts ==
    {NoSearch, SearchText(<<>>), SearchText(<<"h", "o", "o", "p">>),
     SearchText(<<"U", "M">>), SearchText(<<"o", "p", "s">>),
     SearchText(<<"_", "u">>), SearchText(<<"%">>), SearchText(<<"x">>)}

SportFilters == {Undefined, "", "all", "Basketball", "Soccer"}

\* Case folding of ILIKE over the characters in use.
Lower(ch) ==
    CASE ch = "S" -> "s"
      [] ch = "H" -> "h"
      [] ch = "U" -> "u"
      [] ch = "M" -> "m"
      [] ch = "A" -> "a"
      [] ch = "B" -> "b"
      [] OTHER -> ch

\* name ILIKE pat: % matches any run of characters, _ any one character.
RECURSIVE ILike(_, _)
ILike(str, pat) ==
    IF pat = <<>> THEN str = <<>>
    ELSE IF Head(pat) = "%"
         THEN ILike(str, Tail(pat)) \/ (str # <<>> /\ ILike(Tail(str), pat))
         ELSE /\ str # <<>>
              /\ Head(pat) = "_" \/ Lower(Head(pat)) = Lower(Head(str))
              /\ ILike(Tail(str), Tail(pat))

\* The rows the query of getEvents selects for the caller.
EventsMatching(uid, search, sport) ==
    {e \in events :
        /\ RowPolicy(uid, e)
        /\ (search.present /\ search.text # <<>>)
              => ILike(e.name, <<"%">> \o search.text \o <<"%">>)
        /\ (sport # Undefined /\ sport # "" /\ sport # "all")
              => e.sport_type = sport}

\* order('date_time', {ascending: true}): the rows in any order the sort allows.
Ordered(rows) ==
    {sq \in [1..Cardinality(rows) -> rows] :
        /\ \A i, j \in DOMAIN sq : i # j => sq[i] # sq[j]
        /\ \A i, j \in DOMAIN sq : i < j => sq[i].date_time <= sq[j].date_time}

\* What getEvents may hand back: the selected rows, each with its venues.
SelectEvents(uid, search, sport) ==
    {[i \in DOMAIN sq |-> Joined(sq[i])] : sq \in Ordered(EventsMatching(uid, search, sport))}

GetEvents(p) ==
    /\ call[p].pc = "idle"
    /\ \E s \in config.sessions, search \in config.searches, sport \in config.sports :
        LET c == [Begin("list", s, NoInput, 0) EXCEPT !.search = search, !.sport = sport]
        IN  \/ call' = [call EXCEPT ![p] = Threw(c, EventError)]
            \/ \E data \in SelectEvents(GetUser(s), search, sport) :
                 call' = [call EXCEPT ![p] = [c EXCEPT !.pc = "done", !.result = Success(data)]]
    /\ UNCHANGED <<storeVars, config, lastCall, frontVars>>

-----------------------------------------------------------------------------
(* The request handler hands its result back and is free for the next call. *)

NoLastCall ==
    [op |-> "none", user |-> NoUser, id |-> 0, input |-> NoInput, success |-> FALSE,
     rows |-> {}, venues |-> {}]

\* What a caller has seen when its call returned: the call, whether it
\* succeeded, and the rows the store then held under the call's identifier.
Finished(c) ==
    [op |-> c.op, user |-> c.user, id |-> c.id, input |-> c.input,
     success |-> c.result.success,
     rows |-> {e \in events : e.id = c.id}, venues |-> VenuesOf(c.id)]

Return(p) ==
    /\ call[p].pc = "done"
    /\ call' = [call EXCEPT ![p] = IdleCall]
    /\ lastCall' = IF config.track THEN Finished(call[p]) ELSE lastCall
    /\ UNCHANGED <<storeVars, config, frontVars>>

-----------------------------------------------------------------------------
(* The Session Gate: middleware *)

\* A path is a sequence of tokens; the pathname is their concatenation.  No
\* token starts another, so one pathname starts with another exactly when its
\* tokens do.
PathTokens == {"/", "dashboard", "events", "login", "signup", "x"}

RootPath == <<"/">>
LoginPath == <<"/", "login">>
SignupPath == <<"/", "signup">>
DashboardPath == <<"/", "dashboard">>
EventsPath == <<"/", "events">>

RECURSIVE TokenSeqs(_)
TokenSeqs(n) ==
    IF n = 0 THEN {<<>>}
    ELSE LET shorter == TokenSeqs(n - 1)
         IN  shorter \cup {Append(sq, t) : sq \in {x \in shorter : Len(x) = n - 1}, t \in PathTokens}

\* request.nextUrl.pathname: it always starts with a slash.
Paths == {sq \in TokenSeqs(MaxPathLen) : sq # <<>> /\ Head(sq) = "/"}

\* String.prototype.startsWith
StartsWith(path, prefix) ==
    /\ Len(path) >= Len(prefix)
    /\ SubSeq(path, 1, Len(prefix)) = prefix

IsProtected_DashboardOnly(path) ==
    StartsWith(path, DashboardPath)

\* The paths only a signed-in user may see.
IsProtected(path) ==
    StartsWith(path, DashboardPath) \/ StartsWith(path, EventsPath)

IsAuthPage_NoRoot(path) ==
    path = LoginPath \/ path = SignupPath

\* The paths a signed-in user is sent away from.
IsAuthPage(path) ==
    path = LoginPath \/ path = SignupPath \/ path = RootPath

PassThrough(cookies) == [kind |-> "next", to |-> <<>>, cookies |-> cookies]
Redirect(path) == [kind |-> "redirect", to |-> path, cookies |-> FALSE]

MiddlewareResponse_AnyoneLeavesAuthPages(path, session, cookiesSet) ==
    LET user == GetUser(session)
    IN  IF user = NoUser /\ IsProtected(path) THEN Redirect(LoginPath)
        ELSE IF IsAuthPage(path) THEN Redirect(DashboardPath)
        ELSE PassThrough(cookiesSet)

\* The response of middleware to a request.  cookiesSet: the auth client
\* called setAll during getUser(), which rebuilds supabaseResponse with the
\* session cookies on it.
MiddlewareResponse(path, session, cookiesSet) ==
    LET user == GetUser(session)
    IN  IF user = NoUser /\ IsProtected(path) THEN Redirect(LoginPath)
        ELSE IF user # NoUser /\ IsAuthPage(path) THEN Redirect(DashboardPath)
        ELSE PassThrough(cookiesSet)

NoGate == [phase |-> "none"]

\* A request arrives in front of the gate.
GateRequest ==
    /\ gate.phase = "none"
    /\ \E path \in Paths, s \in Sessions, cookiesSet \in BOOLEAN :
        gate' = [phase |-> "request", path |-> path, session |-> s,
                 cookiesSet |-> cookiesSet]
    /\ UNCHANGED <<storeVars, call, config, lastCall, auth, form, nav>>

Middleware ==
    /\ gate.phase = "request"
    /\ gate' = [phase |-> "responded", path |-> gate.path, session |-> gate.session,
                cookiesSet |-> gate.cookiesSet,
                response |-> MiddlewareResponse(gate.path, gate.session, gate.cookiesSet)]
    /\ UNCHANGED <<storeVars, call, config, lastCall, auth, form, nav>>

GateDone ==
    /\ gate.phase = "responded"
    /\ gate' = NoGate
    /\ UNCHANGED <<storeVars, call, config, lastCall, auth, form, nav>>

-----------------------------------------------------------------------------
(* Navigation: the Session Gate, then the page of the path *)

\* /events/edit/[id], the route of EditEventPage (the link of the dashboard
\* card).
EditPath == <<"/", "events", "edit", "x">>

NavPaths == Paths \cup {EditPath}

\* What a page does with a request: it renders, or it calls redirect().
Render == [kind |-> "render", to |-> <<>>]
PageRedirect(path) == [kind |-> "redirect", to |-> path]

HomePage_ToItself(session) ==
    IF GetUser(session) # NoUser THEN PageRedirect(DashboardPath)
    ELSE PageRedirect(RootPath)

\* HomePage: it never renders.
HomePage(session) ==
    IF GetUser(session) # NoUser THEN PageRedirect(DashboardPath)
    ELSE PageRedirect(LoginPath)

\* DashboardPage: the check that backs up the gate.
DashboardPage(session) ==
    IF GetUser(session) = NoUser THEN PageRedirect(LoginPath)
    ELSE Render

\* The answers of getEventById as EditEventPage reads them.
EditResults == {[success |-> TRUE], [success |-> FALSE]}

\* EditEventPage: result is the answer of getEventById(id).
EditEventPage(result) ==
    IF ~result.success THEN PageRedirect(DashboardPath)
    ELSE Render

\* The page the router picks for a path.  The pages of the other paths (login,
\* signup, create, not found) render.
PageResponse(path, session, result) ==
    IF path = RootPath THEN HomePage(session)
    ELSE IF path = DashboardPath THEN DashboardPage(session)
    ELSE IF path = EditPath THEN EditEventPage(result)
    ELSE Render

NoNav == [phase |-> "none"]

\* The browser asks for a path; the session stays as it is from here on.
Navigate ==
    /\ nav.phase = "none"
    /\ \E path \in NavPaths, s \in Sessions :
        nav' = [phase |-> "request", path |-> path, session |-> s,
                visited |-> <<>>]
    /\ UNCHANGED <<storeVars, call, config, lastCall, gate, auth, form>>

\* The gate answers the request: the browser follows its redirect with a new
\* request, or the request goes on to the page.
NavMiddleware ==
    /\ nav.phase = "request"
    /\ \E cookiesSet \in BOOLEAN :
        LET response == MiddlewareResponse(nav.path, nav.session, cookiesSet)
        IN  nav' = IF response.kind = "redirect"
                   THEN [nav EXCEPT !.path = response.to,
                                    !.visited = Append(@, nav.path)]
                   ELSE [nav EXCEPT !.phase = "page"]
    /\ UNCHANGED <<storeVars, call, config, lastCall, gate, auth, form>>

\* The page runs: the browser follows its redirect() with a new request, or
\* the page renders.
NavPage ==
    /\ nav.phase = "page"
    /\ \E result \in EditResults :
        LET response == PageResponse(nav.path, nav.session, result)
        IN  nav' = IF response.kind = "redirect"
                   THEN [nav EXCEPT !.phase = "request",
                                    !.path = response.to,
                                    !.visited = Append(@, nav.path)]
                   ELSE [nav EXCEPT !.phase = "rendered"]
    /\ UNCHANGED <<storeVars, call, config, lastCall, gate, auth, form>>

NavDone ==
    /\ nav.phase = "rendered"
    /\ nav' = NoNav
    /\ UNCHANGED <<storeVars, call, config, lastCall, gate, auth, form>>

-----------------------------------------------------------------------------
(* The auth actions: signUp, signIn, signOut *)

Emails == {"ann@example.org", "bob@example.org", "cat@example.org"}
Passwords == {"secret", "wrong"}

\* error.message of the auth service, Null when it reports no error.
AuthAnswers == {Null, "Invalid login credentials", "auth: remote error"}

\* revalidatePath('/', 'layout')
LayoutCache == [path |-> RootPath, type |-> "layout"]

\* No auth action runs and the browser holds no session.
NoAuth ==
    [phase |-> "idle", action |-> "none", email |-> "", password |-> "",
     session |-> NoUser, error |-> Null,
     returned |-> {}, revalidated |-> {}, redirected |-> {}]

\* An auth action ran to its end: what it returned, which cache it
\* revalidated and where it redirected (each a set with at most one element).
AuthFinished(action, email, password, session, error, returned, revalidated, redirected) ==
    [phase |-> "finished", action |-> action, email |-> email, password |-> password,
     session |-> session, error |-> error,
     returned |-> returned, revalidated |-> revalidated, redirected |-> redirected]

SignUp ==
    /\ auth.phase = "idle"
    /\ \E email \in Emails, password \in Passwords, error \in AuthAnswers :
        auth' = IF error # Null
                THEN AuthFinished("signUp", email, password, auth.session, error,
                                  {[error |-> error]}, {}, {})
                ELSE AuthFinished("signUp", email, password, email, error,
                                  {}, {LayoutCache}, {DashboardPath})
    /\ UNCHANGED <<storeVars, call, config, lastCall, gate, form, nav>>

SignIn_RevalidatesAnyway ==
    /\ auth.phase = "idle"
    /\ \E email \in Emails, password \in Passwords, error \in AuthAnswers :
        auth' = IF error # Null
                THEN AuthFinished("signIn", email, password, auth.session, error,
                                  {[error |-> error]}, {LayoutCache}, {})
                ELSE AuthFinished("signIn", email, password, email, error,
                                  {}, {LayoutCache}, {DashboardPath})
    /\ UNCHANGED <<storeVars, call, config, lastCall, gate, form, nav>>

SignIn ==
    /\ auth.phase = "idle"
    /\ \E email \in Emails, password \in Passwords, error \in AuthAnswers :
        auth' = IF error # Null
                THEN AuthFinished("signIn", email, password, auth.session, error,
                                  {[error |-> error]}, {}, {})
                ELSE AuthFinished("signIn", email, password, email, error,
                                  {}, {LayoutCache}, {DashboardPath})
    /\ UNCHANGED <<storeVars, call, config, lastCall, gate, form, nav>>

SignOut ==
    /\ auth.phase = "idle"
    /\ \E error \in AuthAnswers :
        auth' = IF error # Null
                THEN AuthFinished("signOut", "", "", auth.session, error,
                                  {[error |-> error]}, {}, {})
                ELSE AuthFinished("signOut", "", "", NoUser, error,
                                  {}, {LayoutCache}, {LoginPath})
    /\ UNCHANGED <<storeVars, call, config, lastCall, gate, form, nav>>

\* The browser has shown the outcome; the session stays as the action left it.
AuthDone ==
    /\ auth.phase = "finished"
    /\ auth' = [NoAuth EXCEPT !.session = auth.session]
    /\ UNCHANGED <<storeVars, call, config, lastCall, gate, form, nav>>

-----------------------------------------------------------------------------
(* The event form: EventForm *)

MaxFormVenues == 2    \* venue entries of the form

NameMax == 100
DescriptionMax == 500
AddressMax == 200

\* A text of n characters.
Repeat(ch, n) == [i \in 1..n |-> ch]

\* What the user can have typed into the text fields: nothing, a text, a
\* text that is too long; for a venue name also blanks only.
FormNames == {<<>>, Summer, Repeat("n", NameMax + 1)}
FormSports == {"", "Basketball"}
FormDescriptions == {<<>>, <<"d">>, Repeat("d", DescriptionMax + 1)}
FormVenueNames == {<<>>, <<" ">>, <<" ", "A", " ">>}
FormAddresses == {<<>>, Repeat("a", AddressMax + 1)}

\* The value of the datetime-local input: empty, a date, not a date.
LocalDate == "2025-07-01T18:00"
FormDates == {"", LocalDate, "soon"}

FormVenues == [name : FormVenueNames, address : FormAddresses]

FormVenueLists == UNION {[1..n -> FormVenues] : n \in 0..MaxFormVenues}

FormValues ==
    [name : FormNames, sport_type : FormSports, date_time : FormDates,
     description : FormDescriptions, venues : FormVenueLists]

SchemaAccepts_AnyVenues(data) ==
    /\ Len(data.name) >= 1
    /\ Len(data.name) <= NameMax
    /\ data.sport_type # ""
    /\ data.date_time # ""
    /\ Len(data.description) <= DescriptionMax

\* eventFormSchema
SchemaAccepts(data) ==
    /\ Len(data.name) >= 1
    /\ Len(data.name) <= NameMax
    /\ data.sport_type # ""
    /\ data.date_time # ""
    /\ Len(data.description) <= DescriptionMax
    /\ Len(data.venues) >= 1
    /\ \A i \in 1..Len(data.venues) :
        /\ Len(data.venues[i].name) >= 1
        /\ Len(data.venues[i].name) <= NameMax
        /\ Len(data.venues[i].address) <= AddressMax

IsBlank(ch) == ch \in {" ", "\t", "\n"}

\* String.prototype.trim(): the text without its leading and trailing blanks.
RECURSIVE Trim(_)
Trim(str) ==
    IF str = <<>> THEN str
    ELSE IF IsBlank(Head(str)) THEN Trim(Tail(str))
    ELSE IF IsBlank(str[Len(str)]) THEN Trim(SubSeq(str, 1, Len(str) - 1))
    ELSE str

\* new Date(text) is a date.
IsDate(text) == text = LocalDate

\* new Date(text).toISOString() of a date.
ToISOString(text) == "2025-07-01T18:00:00.000Z"

KeptVenue(v) == Trim(v.name) # <<>>

\* formattedData
FormattedData(data) ==
    [data EXCEPT !.date_time = ToISOString(data.date_time),
                 !.venues = SelectSeq(data.venues, KeptVenue)]

NoForm ==
    [phase |-> "closed", mode |-> "create", event |-> 0, sent |-> {}, data |-> {}]

\* The form is on the screen, in create mode or in edit mode for an event,
\* and the user has typed its values.
FormFill ==
    /\ form.phase = "closed"
    /\ \E mode \in {"create", "edit"}, data \in FormValues :
        form' = [phase |-> "filled", mode |-> mode,
                 event |-> IF mode = "edit" THEN 1 ELSE 0,
                 sent |-> {}, data |-> {data}]
    /\ UNCHANGED <<storeVars, call, config, lastCall, gate, auth, nav>>

\* form.handleSubmit(onSubmit): the resolver validates; onSubmit runs on
\* valid data only, formats it and issues the store operation, unless the
\* formatting throws.
FormSubmit ==
    /\ form.phase = "filled"
    /\ \E data \in form.data :
        form' =
            IF ~SchemaAccepts(data) THEN [form EXCEPT !.phase = "invalid"]
            ELSE IF ~IsDate(data.date_time) THEN [form EXCEPT !.phase = "threw"]
            ELSE [form EXCEPT
                    !.phase = "sent",
                    !.sent = {[op |-> IF form.mode = "edit" /\ form.event # 0
                                      THEN "update" ELSE "create",
                               id |-> form.event,
                               input |-> FormattedData(data)]}]
    /\ UNCHANGED <<storeVars, call, config, lastCall, gate, auth, nav>>

\* The user leaves the form.
FormClose ==
    /\ form.phase \in {"invalid", "threw", "sent"}
    /\ form' = NoForm
    /\ UNCHANGED <<storeVars, call, config, lastCall, gate, auth, nav>>

-----------------------------------------------------------------------------
(* The store operations, one request handler at a time *)


Init ==
    /\ events = {}
    /\ venues = {}
    /\ nextEventId = 1
    /\ nextVenueId = 1
    /\ call = [p \in Procs |-> IdleCall]
    /\ config = [procs |-> {"p1"}, sessions |-> Sessions, inputs |-> EventInputs,
                 searches |-> {NoSearch}, sports |-> {Undefined}, track |-> FALSE,
                 ids |-> EventIds]
    /\ lastCall = NoLastCall
    /\ gate = NoGate
    /\ auth = NoAuth
    /\ form = NoForm
    /\ nav = NoNav

Next ==
    \/ \E p \in config.procs : CreateEvent_NoUser(p)
    \/ \E p \in config.procs : CreateEvent_InsertEvent(p)
    \/ \E p \in config.procs : CreateEvent_InsertVenues(p)
    \/ \E p \in config.procs : UpdateEvent_Update(p)
    \/ \E p \in config.procs : UpdateEvent_DeleteVenues(p)
    \/ \E p \in config.procs : UpdateEvent_InsertVenues(p)
    \/ \E p \in config.procs : DeleteEvent(p)
    \/ \E p \in config.procs : GetEventById(p)
    \/ \E p \in config.procs : GetEvents(p)
    \/ \E p \in config.procs : Return(p)

Spec == Init /\ [][Next]_vars

-----------------------------------------------------------------------------
(* The Session Gate alone *)

GateNext ==
    \/ GateRequest
    \/ Middleware
    \/ GateDone

GateSpec == Init /\ [][GateNext]_vars

-----------------------------------------------------------------------------
(* The auth actions alone *)

AuthNext ==
    \/ SignUp
    \/ SignIn
    \/ SignOut
    \/ AuthDone

AuthSpec == Init /\ [][AuthNext]_vars

-----------------------------------------------------------------------------
(* The event form alone *)

FormNext ==
    \/ FormFill
    \/ FormSubmit
    \/ FormClose

FormSpec == Init /\ [][FormNext]_vars

-----------------------------------------------------------------------------
(* Properties of the Session Gate *)

\* The pathname starts with /dashboard or with /events.
UnderProtectedPrefix(path) ==
    /\ Len(path) >= 2
    /\ path[1] = "/"
    /\ path[2] \in {"dashboard", "events"}

\* C1: a request with no user (no session, or a credential whose check
\* failed) for a path starting with /dashboard or /events is answered with a
\* redirect to /login, never passed through.
C1_NoSessionProtectedRedirectsToLogin ==
    (/\ gate.phase = "responded"
     /\ gate.session.cred # "valid"
     /\ UnderProtectedPrefix(gate.path))
        => /\ gate.response.kind = "redirect"
           /\ gate.response.to = <<"/", "login">>

C1_Witness ==
    /\ gate.phase = "responded"
    /\ gate.session.cred = "failed"
    /\ gate.path = <<"/", "events", "x">>
    /\ gate.response.kind = "redirect"

\* C2: a request with a valid session for exactly /login, /signup or / is
\* answered with a redirect to /dashboard.
C2_ValidSessionAuthPageRedirectsToDashboard ==
    (/\ gate.phase = "responded"
     /\ gate.session.cred = "valid"
     /\ gate.path \in {<<"/", "login">>, <<"/", "signup">>, <<"/">>})
        => /\ gate.response.kind = "redirect"
           /\ gate.response.to = <<"/", "dashboard">>

C2_Witness ==
    /\ gate.phase = "responded"
    /\ gate.session.cred = "valid"
    /\ gate.path = <<"/">>
    /\ gate.response.to = <<"/", "dashboard">>

\* The three outcomes of the gate.
GateOutcome(response) ==
    IF response.kind = "next" THEN "pass"
    ELSE IF response.kind = "redirect" /\ response.to = <<"/", "login">> THEN "login"
    ELSE IF response.kind = "redirect" /\ response.to = <<"/", "dashboard">> THEN "dashboard"
    ELSE "other"

\* The outcome the two redirect rules assign to a path and a session validity.
RuleOutcome(path, valid) ==
    IF ~valid /\ UnderProtectedPrefix(path) THEN "login"
    ELSE IF valid /\ path \in {<<"/", "login">>, <<"/", "signup">>, <<"/">>} THEN "dashboard"
    ELSE "pass"

\* C3: the gate answers every request with one of three outcomes, the outcome
\* depends on the path and on the validity of the session only (not on who
\* the user is, nor on why there is none, nor on the cookies), and a request
\* neither redirect rule covers is passed through.
C3_OutcomeIsFunctionOfPathAndValidity ==
    gate.phase = "responded"
        => /\ GateOutcome(gate.response) \in {"pass", "login", "dashboard"}
           /\ GateOutcome(gate.response) = RuleOutcome(gate.path, gate.session.cred = "valid")

C3_Witness ==
    /\ gate.phase = "responded"
    /\ gate.session.cred = "absent"
    /\ gate.path = <<"/", "login">>
    /\ gate.response.kind = "next"

-----------------------------------------------------------------------------
(* Properties of createEvent *)

\* The step in which handler p takes up a call of operation op.
Begins(p, op) == call[p].pc = "idle" /\ call'[p].op = op

\* The call of handler p has returned.
Done(p, op) == call[p].pc = "done" /\ call[p].op = op

\* C4: createEvent by a caller with no valid session returns
\* {success: false, error: 'User not authenticated'} and leaves both tables
\* as they were.
C4_CreateUnauthenticatedFails ==
    [][\A p \in Procs :
          (Begins(p, "create") /\ call'[p].user = NoUser)
              => /\ call'[p].pc = "done"
                 /\ call'[p].result = [success |-> FALSE, error |-> "User not authenticated"]
                 /\ events' = events
                 /\ venues' = venues]_vars

C4_Witness ==
    \E p \in Procs :
        /\ Done(p, "create")
        /\ call[p].user = NoUser
        /\ call[p].result.error = "User not authenticated"
        /\ events # {}

\* A stored optional text against the submitted one, an absent one being null.
SameAsSubmitted(stored, submitted) ==
    \/ stored = submitted
    \/ stored = Null /\ submitted = Undefined

\* A stored optional text against the submitted one, an absent and an empty
\* one being null.
SameOrNullForEmpty(stored, submitted) ==
    stored = (IF submitted \in {Undefined, ""} THEN Null ELSE submitted)

\* The venue rows are the submitted venues, one row each, all of event id.
VenueRowsAre(rows, id, vs, SameText(_, _)) ==
    /\ Cardinality(rows) = Len(vs)
    /\ \E f \in [1..Len(vs) -> rows] :
        /\ \A i, j \in 1..Len(vs) : i # j => f[i] # f[j]
        /\ \A i \in 1..Len(vs) :
            /\ f[i].event_id = id
            /\ f[i].name = vs[i].name
            /\ SameText(f[i].address, vs[i].address)

\* The event row is owned by uid and carries the submitted fields.
EventRowIs(e, uid, input, SameText(_, _)) ==
    /\ e.user_id = uid
    /\ e.name = input.name
    /\ e.sport_type = input.sport_type
    /\ e.date_time = input.date_time
    /\ SameText(e.description, input.description)

\* After a successful createEvent: the returned event is in the store, owned
\* by the caller, with the submitted fields and venues, and the caller reads
\* it back with exactly those venues.
CreatedAsSubmitted(p, SameText(_, _)) ==
    LET e == call[p].result.data
        uid == call[p].user
        input == call[p].input
    IN  /\ e \in events
        /\ \A other \in events : other.id = e.id => other = e
        /\ EventRowIs(e, uid, input, SameText)
        /\ VenueRowsAre(VenuesOf(e.id), e.id, input.venues, SameText)
        /\ SelectById(uid, e.id) = [success |-> TRUE, data |-> [event |-> e, venues |-> VenuesOf(e.id)]]
        /\ SelectEvents(uid, NoSearch, Undefined) # {}
        /\ \A data \in SelectEvents(uid, NoSearch, Undefined) :
              Cardinality({i \in DOMAIN data : data[i].event.id = e.id}) = 1
                 /\ \A i \in DOMAIN data :
                       data[i].event.id = e.id
                          => data[i] = [event |-> e, venues |-> VenuesOf(e.id)]

\* A createEvent call inserts one event row under a fresh id, and no other.
CreateInsertsOneEvent(p) ==
    /\ (Begins(p, "create") /\ call'[p].pc # "done")
          => /\ Cardinality(events') = Cardinality(events) + 1
             /\ events \subseteq events'
             /\ call'[p].event \in events' \ events
    /\ (Begins(p, "create") /\ call'[p].pc = "done" /\ call'[p].result.success)
          => /\ Cardinality(events') = Cardinality(events) + 1
             /\ events \subseteq events'
             /\ call'[p].result.data \in events' \ events
    /\ (call[p].pc = "createVenues" /\ call'[p].pc = "done" /\ call'[p].result.success)
          => /\ events' = events
             /\ call'[p].result.data = call[p].event

\* C5 as stated: after a successful createEvent by U the store holds exactly
\* one new event, owned by U, whose fields are the submitted ones and whose
\* venues are the submitted ones, and U reads it back with those venues.
C5_CreateStoresSubmitted ==
    \A p \in Procs :
        (Done(p, "create") /\ call[p].result.success)
            => CreatedAsSubmitted(p, SameAsSubmitted)

\* C5 amended: as C5, an empty description or venue address being stored as
\* null.
C5_CreateStoresNormalised ==
    /\ [](\A p \in Procs :
            (Done(p, "create") /\ call[p].result.success)
                => CreatedAsSubmitted(p, SameOrNullForEmpty))
    /\ [][\A p \in Procs : CreateInsertsOneEvent(p)]_vars

C5_Witness ==
    \E p \in Procs :
        /\ Done(p, "create")
        /\ call[p].result.success
        /\ call[p].user = "u1"
        /\ call[p].input.description = ""
        /\ Len(call[p].input.venues) = 2
        /\ Cardinality(VenuesOf(call[p].result.data.id)) = 2

\* C6: createEvent by an authenticated caller with an empty venues array is
\* not rejected: once the event row is inserted the call returns success with
\* that event, which has no venues; the only failures are those of the
\* session check and of the event insert.
C6_CreateWithoutVenues ==
    /\ [][\A p \in Procs :
            (/\ Begins(p, "create")
             /\ call'[p].input.venues = <<>>
             /\ events' # events)
                => /\ call'[p].pc = "done"
                   /\ call'[p].result.success
                   /\ call'[p].result.data \in events'
                   /\ {v \in venues' : v.event_id = call'[p].result.data.id} = {}]_vars
    /\ [](\A p \in Procs :
            (Done(p, "create") /\ call[p].input.venues = <<>> /\ ~call[p].result.success)
                => call[p].result.error \in {"User not authenticated", EventError})

C6_Witness ==
    \E p \in Procs :
        /\ Done(p, "create")
        /\ call[p].input.venues = <<>>
        /\ call[p].user # NoUser
        /\ call[p].result.success
        /\ call[p].result.data \in events
        /\ VenuesOf(call[p].result.data.id) = {}

\* The step in which the venues insert of createEvent fails.
CreateVenuesInsertFails(p) ==
    /\ call[p].pc = "createVenues"
    /\ call'[p] # call[p]
    /\ venues' = venues

\* C7: when the venues insert of createEvent fails after the event insert
\* succeeded, createEvent returns a failure and the new event stays in the
\* store, with no venues: nothing is undone.
C7_CreateNotAtomic ==
    [][\A p \in Procs :
          CreateVenuesInsertFails(p)
              => /\ call'[p].pc = "done"
                 /\ ~call'[p].result.success
                 /\ events' = events
                 /\ call[p].event \in events'
                 /\ {v \in venues' : v.event_id = call[p].event.id} = {}]_vars

C7_Witness ==
    \E p \in Procs :
        /\ Done(p, "create")
        /\ ~call[p].result.success
        /\ call[p].result.error = VenuesError
        /\ call[p].event \in events
        /\ VenuesOf(call[p].event.id) = {}

\* C8: whenever createEvent returns a failure, the store holds no event row
\* and no venue row created by that call.
C8_NoPartialCreation ==
    \A p \in Procs :
        (Done(p, "create") /\ ~call[p].result.success)
            => /\ \A e \in events : e.id # call[p].event.id
               /\ \A v \in venues : v.event_id # call[p].event.id

-----------------------------------------------------------------------------
(* Properties of updateEvent *)

\* After a successful updateEvent: the event row carries the submitted
\* fields, and its venues are the submitted ones, each inserted by this call.
UpdatedAsSubmitted(p, SameText(_, _)) ==
    LET id == call[p].id
        input == call[p].input
    IN  /\ \E e \in events : e.id = id
        /\ \A e \in events :
              e.id = id => EventRowIs(e, e.user_id, input, SameText)
        /\ VenueRowsAre(VenuesOf(id), id, input.venues, SameText)
        /\ \A v \in VenuesOf(id) : v.id >= nextVenueId - Len(input.venues)

\* C9 as stated: after a successful updateEvent with nothing interleaved the
\* event's name, sport type, date-time and description equal the input's, and
\* its venues are exactly the submitted ones, none from before the call.
C9_UpdateStoresSubmitted ==
    \A p \in Procs :
        (Done(p, "update") /\ call[p].result.success)
            => UpdatedAsSubmitted(p, SameAsSubmitted)

\* C9 amended: as C9, an empty description or venue address being stored as
\* null.
C9_UpdateStoresNormalised ==
    \A p \in Procs :
        (Done(p, "update") /\ call[p].result.success)
            => UpdatedAsSubmitted(p, SameOrNullForEmpty)

C9_Witness ==
    \E p \in Procs :
        /\ Done(p, "update")
        /\ call[p].result.success
        /\ Len(call[p].input.venues) = 1
        /\ nextVenueId = 4
        /\ \E e \in events : e.id = call[p].id /\ e.name = call[p].input.name
        /\ Cardinality(VenuesOf(call[p].id)) = 1

\* The step in which the venues insert of updateEvent fails.
UpdateVenuesInsertFails(p) ==
    /\ call[p].pc = "updateVenues"
    /\ call'[p] # call[p]
    /\ venues' = venues

\* C10: when the venues insert of updateEvent fails after the venues delete
\* succeeded, updateEvent returns a failure while the event row carries the
\* new field values and the event has no venues.
C10_UpdateNotAtomic ==
    [][\A p \in Procs :
          UpdateVenuesInsertFails(p)
              => /\ call'[p].pc = "done"
                 /\ ~call'[p].result.success
                 /\ events' = events
                 /\ \E e \in events' : e.id = call[p].id
                 /\ \A e \in events' :
                       e.id = call[p].id
                          => EventRowIs(e, e.user_id, call[p].input, SameOrNullForEmpty)
                 /\ {v \in venues' : v.event_id = call[p].id} = {}]_vars

C10_Witness ==
    \E p \in Procs :
        /\ Done(p, "update")
        /\ ~call[p].result.success
        /\ call[p].result.error = VenuesError
        /\ nextVenueId > 1
        /\ \E e \in events : e.id = call[p].id /\ e.name = call[p].input.name
        /\ VenuesOf(call[p].id) = {}

-----------------------------------------------------------------------------
(* updateEvent twice in succession *)

\* One signed-in user creates an event and updates it, call after call; the
\* history variable keeps what the call before left behind.
RepeatInputs ==
    {input \in EventInputs :
        \/ input.name = Summer /\ Len(input.venues) = 1
        \/ input.sport_type = "Soccer" /\ Len(input.venues) = 0
        \/ input.description = "" /\ Len(input.venues) = 2}

RepeatInit ==
    /\ events = {}
    /\ venues = {}
    /\ nextEventId = 1
    /\ nextVenueId = 1
    /\ call = [p \in Procs |-> IdleCall]
    /\ config = [procs |-> {"p1"}, sessions |-> {[cred |-> "valid", user |-> "u1"]},
                 inputs |-> RepeatInputs,
                 searches |-> {NoSearch}, sports |-> {Undefined}, track |-> TRUE,
                 ids |-> EventIds]
    /\ lastCall = NoLastCall
    /\ gate = NoGate
    /\ auth = NoAuth
    /\ form = NoForm
    /\ nav = NoNav

RepeatNext ==
    \/ \E p \in config.procs : CreateEvent_InsertEvent(p)
    \/ \E p \in config.procs : CreateEvent_InsertVenues(p)
    \/ \E p \in config.procs : UpdateEvent_Update(p)
    \/ \E p \in config.procs : UpdateEvent_DeleteVenues(p)
    \/ \E p \in config.procs : UpdateEvent_InsertVenues(p)
    \/ \E p \in config.procs : Return(p)

RepeatSpec == RepeatInit /\ [][RepeatNext]_vars

\* The call of p has returned success, and it is the updateEvent the same
\* caller made just before, with the same input, which also succeeded.
SecondUpdateDone(p) ==
    /\ Done(p, "update")
    /\ call[p].result.success
    /\ lastCall.op = "update"
    /\ lastCall.success
    /\ lastCall.user = call[p].user
    /\ lastCall.id = call[p].id
    /\ lastCall.input = call[p].input

WithoutUpdatedAt(e) ==
    [id |-> e.id, user_id |-> e.user_id, name |-> e.name, sport_type |-> e.sport_type,
     date_time |-> e.date_time, description |-> e.description]

WithoutId(v) == [event_id |-> v.event_id, name |-> v.name, address |-> v.address]

\* C11 as stated: after the second of two successive updateEvent calls with
\* the same input, the Event row and its Venue rows equal those after the
\* first call.
C11_SecondUpdateLeavesSameRows ==
    \A p \in Procs :
        SecondUpdateDone(p)
            => /\ {e \in events : e.id = call[p].id} = lastCall.rows
               /\ VenuesOf(call[p].id) = lastCall.venues

\* C11: after the second of two successive updateEvent calls with the same
\* input, the Event row equals the one after the first call in every field
\* but updated_at, and the Venue rows carry the same names and addresses as
\* those after the first call, in equal number, under identifiers of their own.
C11_SecondUpdateLeavesSameContent ==
    \A p \in Procs :
        SecondUpdateDone(p)
            => /\ {WithoutUpdatedAt(e) : e \in {x \in events : x.id = call[p].id}}
                    = {WithoutUpdatedAt(e) : e \in lastCall.rows}
               /\ {WithoutId(v) : v \in VenuesOf(call[p].id)}
                    = {WithoutId(v) : v \in lastCall.venues}
               /\ Cardinality(VenuesOf(call[p].id)) = Cardinality(lastCall.venues)
               /\ Cardinality(VenuesOf(call[p].id)) = Len(call[p].input.venues)

C11_Witness ==
    /\ SecondUpdateDone("p1")
    /\ VenuesOf(call["p1"].id) # {}
    /\ VenuesOf(call["p1"].id) \cap lastCall.venues = {}
    /\ \E e \in events, f \in lastCall.rows : e.id = f.id /\ e.updated_at # f.updated_at

-----------------------------------------------------------------------------
(* One store, several users *)

\* Two users and callers without a session share the store; one request
\* handler at a time, every store operation, three inputs.
SharedInit ==
    /\ events = {}
    /\ venues = {}
    /\ nextEventId = 1
    /\ nextVenueId = 1
    /\ call = [p \in Procs |-> IdleCall]
    /\ config = [procs |-> {"p1"}, sessions |-> Sessions, inputs |-> RepeatInputs,
                 searches |-> {NoSearch}, sports |-> {Undefined}, track |-> FALSE,
                 ids |-> EventIds]
    /\ lastCall = NoLastCall
    /\ gate = NoGate
    /\ auth = NoAuth
    /\ form = NoForm
    /\ nav = NoNav

SharedSpec == SharedInit /\ [][Next]_vars

-----------------------------------------------------------------------------
(* deleteEvent and what getEventById finds afterwards *)

Callers == Users \cup {NoUser}

\* No caller finds a row under the identifier, and no venue refers to it.
Gone(id) ==
    /\ \A v \in venues : v.event_id # id
    /\ \A uid \in Callers : SelectById(uid, id) = Failure(NoRowError)

\* A step in which deleteEvent(id), called for an event in the store,
\* returns success.
DeleteSucceeds(p, e) ==
    /\ Begins(p, "delete")
    /\ e \in events
    /\ call'[p].id = e.id
    /\ call'[p].result.success

\* An identifier the store has handed out and holds no row for keeps no row.
GoneStaysGone ==
    \A id \in EventIds :
        (id < nextEventId /\ \A e \in events : e.id # id)
            => \A e \in events' : e.id # id

\* A getEventById that has returned for an identifier without a row failed.
GetOfGoneFails ==
    \A p \in Procs :
        (Done(p, "get") /\ \A e \in events : e.id # call[p].id)
            => call[p].result \in {Failure(NoRowError), Failure(EventError)}

\* C12 as stated: after deleteEvent(id) on an existing Event returns success,
\* whoever called it, no Venue of the Event remains and getEventById(id) finds
\* nothing, from then on.
C12_DeleteSuccessMeansGone ==
    /\ [][\A p \in Procs : \A e \in events : DeleteSucceeds(p, e) => Gone(e.id)']_vars
    /\ [][GoneStaysGone]_vars
    /\ []GetOfGoneFails

\* C12: after deleteEvent(id), called by the owner of an existing Event,
\* returns success, no Venue whose event_id equals id remains and no caller's
\* getEventById(id) finds a row; the identifier never gets a row again, and
\* every getEventById(id) that returns afterwards is a failure (not found, or
\* the error of a failed request).
C12_DeleteByOwnerMeansGone ==
    /\ [][\A p \in Procs : \A e \in events :
            (DeleteSucceeds(p, e) /\ call'[p].user = e.user_id) => Gone(e.id)']_vars
    /\ [][GoneStaysGone]_vars
    /\ []GetOfGoneFails

\* An event with venues was in the store, is gone, and a getEventById for it
\* has just come back with the store's not-found error.
C12_Witness ==
    /\ Done("p1", "get")
    /\ call["p1"].id = 1
    /\ call["p1"].user = "u1"
    /\ call["p1"].result = Failure(NoRowError)
    /\ nextEventId = 2
    /\ nextVenueId > 2
    /\ events = {}
    /\ venues = {}

-----------------------------------------------------------------------------
(* Two request handlers at once *)

\* Two requests of one signed-in user are served at the same time; the steps
\* of their store operations interleave in any order.  The user has created
\* one event before, without venues.
FirstInput == CHOOSE input \in RepeatInputs : Len(input.venues) = 0

ConcurrentInit ==
    /\ events = {NewEventRow(1, "u1", FirstInput, 1)}
    /\ venues = {}
    /\ nextEventId = 2
    /\ nextVenueId = 1
    /\ call = [p \in Procs |-> IdleCall]
    /\ config = [procs |-> Procs, sessions |-> {[cred |-> "valid", user |-> "u1"]},
                 inputs |-> RepeatInputs,
                 searches |-> {NoSearch}, sports |-> {Undefined}, track |-> FALSE,
                 ids |-> EventIds]
    /\ lastCall = NoLastCall
    /\ gate = NoGate
    /\ auth = NoAuth
    /\ form = NoForm
    /\ nav = NoNav

ConcurrentNext ==
    \/ \E p \in config.procs : UpdateEvent_Update(p)
    \/ \E p \in config.procs : UpdateEvent_DeleteVenues(p)
    \/ \E p \in config.procs : UpdateEvent_InsertVenues(p)
    \/ \E p \in config.procs : GetEventById(p)
    \/ \E p \in config.procs : Return(p)

ConcurrentSpec == ConcurrentInit /\ [][ConcurrentNext]_vars

\* An updateEvent on the event is between two of its steps.
UpdateInFlight(q, id) ==
    /\ call[q].op = "update"
    /\ call[q].pc \in {"updateDelete", "updateVenues"}
    /\ call[q].id = id

-----------------------------------------------------------------------------
(* getEvents with its filters *)

\* The store after four createEvent calls: three events of u1, two of them
\* at the same date, and one event of u2.
ListedEvents ==
    {NewEventRow(1, "u1", CHOOSE input \in EventInputs :
                        input.sport_type = "Soccer" /\ input.venues = <<>>, 1),
     NewEventRow(2, "u1", CHOOSE input \in EventInputs :
                        input.name = Summer /\ input.venues = <<>>, 1),
     NewEventRow(3, "u1", CHOOSE input \in EventInputs :
                        input.description = "" /\ input.venues = <<>>, 2),
     NewEventRow(4, "u2", CHOOSE input \in EventInputs :
                        input.name = Summer /\ input.venues = <<>>, 2)}

ListInit ==
    /\ events = ListedEvents
    /\ venues = {}
    /\ nextEventId = 5
    /\ nextVenueId = 1
    /\ call = [p \in Procs |-> IdleCall]
    /\ config = [procs |-> {"p1"}, sessions |-> Sessions, inputs |-> EventInputs,
                 searches |-> SearchTexts, sports |-> SportFilters, track |-> FALSE,
                 ids |-> EventIds]
    /\ lastCall = NoLastCall
    /\ gate = NoGate
    /\ auth = NoAuth
    /\ form = NoForm
    /\ nav = NoNav

ListNext ==
    \/ \E p \in config.procs : GetEvents(p)
    \/ \E p \in config.procs : Return(p)

ListSpec == ListInit /\ [][ListNext]_vars

LowerAll(str) == [i \in DOMAIN str |-> Lower(str[i])]

\* str contains sub as a substring, whatever the case of the letters.
ContainsIgnoringCase(str, sub) ==
    \E i \in 0..(Len(str) - Len(sub)) :
        SubSeq(LowerAll(str), i + 1, i + Len(sub)) = LowerAll(sub)

\* The events the claim has listEvents return.
Listed(uid, search, sport) ==
    {e \in events :
        /\ RowPolicy(uid, e)
        /\ (search.present /\ search.text # <<>>)
              => ContainsIgnoringCase(e.name, search.text)
        /\ sport \notin {Undefined, "", "all"} => e.sport_type = sport}

\* C14 as stated: a getEvents that succeeds returns exactly the visible
\* Events whose name contains the search text, whatever the case, and whose
\* sport equals the sport filter (an absent or empty search text, and an
\* absent, empty or "all" sport filter, do not constrain), each once, in
\* non-decreasing order of date_time.
C14_ListReturnsSubstringMatches ==
    \A p \in Procs :
        (Done(p, "list") /\ call[p].result.success)
            => LET data == call[p].result.data
                   expected == Listed(call[p].user, call[p].search, call[p].sport)
               IN  /\ {data[i].event : i \in DOMAIN data} = expected
                   /\ Len(data) = Cardinality(expected)
                   /\ \A i, j \in DOMAIN data :
                        i < j => data[i].event.date_time <= data[j].event.date_time

-----------------------------------------------------------------------------
(* Every store operation ends in a result *)

\* One handler, three callers (signed in, no session, failed credential
\* check), two inputs; every round trip that is issued is answered.
AnsweredInit ==
    /\ events = {}
    /\ venues = {}
    /\ nextEventId = 1
    /\ nextVenueId = 1
    /\ call = [p \in Procs |-> IdleCall]
    /\ config = [procs |-> {"p1"},
                 sessions |-> {x \in Sessions : x.user # "u2"},
                 inputs |-> {input \in RepeatInputs : Len(input.venues) < 2},
                 searches |-> {NoSearch}, sports |-> {Undefined}, track |-> FALSE,
                 ids |-> EventIds]
    /\ lastCall = NoLastCall
    /\ gate = NoGate
    /\ auth = NoAuth
    /\ form = NoForm
    /\ nav = NoNav

AnsweredSpec == AnsweredInit /\ [][Next]_vars /\ WF_vars(Next)

\* ActionResponse<T>
IsActionResponse(r) ==
    \/ DOMAIN r = {"success", "data"} /\ r.success = TRUE
    \/ DOMAIN r = {"success", "error"} /\ r.success = FALSE

\* The messages the store can report in the round trip a call makes at pc.
StepErrors(op, pc) ==
    CASE pc = "createVenues" -> {VenuesError, ForeignKeyError}
      [] pc = "updateDelete" -> {DeleteError}
      [] pc = "updateVenues" -> {VenuesError, ForeignKeyError}
      [] pc = "idle" /\ op \in {"update", "get"} -> {EventError, NoRowError}
      [] OTHER -> {EventError}

\* The session a call was made with.
CallSession(c) == [cred |-> c.cred, user |-> c.user]

\* A step in which the call of p ends as a failure.
Fails(p) ==
    /\ call[p].pc # "done"
    /\ call'[p].pc = "done"
    /\ ~call'[p].result.success

\* Every call that has begun comes to its end.
EveryCallEnds ==
    \A p \in Procs : (call[p].pc \notin {"idle", "done"}) ~> (call[p].pc = "done")

\* Every call ends with an ActionResponse.
EveryResultIsActionResponse ==
    \A p \in Procs : call[p].pc = "done" => IsActionResponse(call[p].result)

\* C15 as stated: every store operation ends with an ActionResponse, and a
\* failure carries the message of the store or auth step that reported the
\* error; for createEvent after a failed credential check that is the error
\* getUser() reported.
C15_FailureCarriesStepMessage ==
    /\ []EveryResultIsActionResponse
    /\ [][\A p \in Procs :
            Fails(p) =>
                IF call'[p].op = "create" /\ GetUserError(CallSession(call'[p])) # Null
                THEN call'[p].result.error = GetUserError(CallSession(call'[p]))
                ELSE call'[p].result.error
                        \in StepErrors(call'[p].op, call[p].pc) \cup {NotAuthenticated}]_vars
    /\ EveryCallEnds

\* C15: every store operation that has begun ends, with an ActionResponse;
\* a failure carries the message of the store step that reported the error,
\* and a createEvent whose user lookup yields no user, with or without an
\* error of the auth step, fails with "User not authenticated".
C15_FailureCarriesStoreMessage ==
    /\ []EveryResultIsActionResponse
    /\ [][\A p \in Procs :
            Fails(p) =>
                IF call'[p].op = "create" /\ call'[p].user = NoUser
                THEN call'[p].result.error = NotAuthenticated
                ELSE call'[p].result.error \in StepErrors(call'[p].op, call[p].pc)]_vars
    /\ EveryCallEnds

\* An updateEvent has ended with the message of its venue delete.
C15_Witness ==
    /\ Done("p1", "update")
    /\ call["p1"].result = Failure(DeleteError)
    /\ \E e \in events : e.id = call["p1"].id /\ e = call["p1"].event

-----------------------------------------------------------------------------
(* Properties of the auth actions *)

\* The fixed destination of an auth action.
Destination(action) == IF action = "signOut" THEN LoginPath ELSE DashboardPath

\* C16: an auth action has two outcomes.  When the auth service reports no
\* error it redirects to its destination (signUp and signIn to /dashboard,
\* signOut to /login) and returns nothing; when the service reports an error
\* it returns that error's message, redirects nowhere and revalidates no cache.
C16_AuthActionOutcomes ==
    auth.phase = "finished"
        => IF auth.error = Null
           THEN /\ auth.redirected = {Destination(auth.action)}
                /\ auth.returned = {}
           ELSE /\ auth.returned = {[error |-> auth.error]}
                /\ auth.redirected = {}
                /\ auth.revalidated = {}

\* A signIn of a signed-in browser has failed: the message is returned.
C16_Witness ==
    /\ auth.phase = "finished"
    /\ auth.action = "signIn"
    /\ auth.session # NoUser
    /\ auth.error = "Invalid login credentials"
    /\ auth.returned = {[error |-> "Invalid login credentials"]}

-----------------------------------------------------------------------------
(* Two updateEvent calls on one event *)

\* Both handlers have returned success from an updateEvent on the event.
BothUpdated(id) ==
    \A p \in Procs :
        /\ Done(p, "update")
        /\ call[p].result.success
        /\ call[p].id = id

\* The venues the calls of the handlers in ps submitted, one list.
RECURSIVE SubmittedVenues(_)
SubmittedVenues(ps) ==
    IF ps = {} THEN <<>>
    ELSE LET p == CHOOSE q \in ps : TRUE
         IN  call[p].input.venues \o SubmittedVenues(ps \ {p})

\* C17 as stated: when two updateEvent calls on one Event have both returned
\* success, the stored Event fields and the stored Venue set are those that a
\* single one of the two calls submitted.
C17_FinalStateIsOneCallsInput ==
    \A id \in EventIds :
        BothUpdated(id)
            => \E p \in Procs : \E e \in events :
                /\ e.id = id
                /\ EventRowIs(e, e.user_id, call[p].input, SameOrNullForEmpty)
                /\ VenueRowsAre(VenuesOf(id), id, call[p].input.venues, SameOrNullForEmpty)

\* C17: when two updateEvent calls on one Event have both returned success,
\* the stored Event row is the row one of the two calls wrote, and the stored
\* Venue set is the set one of the calls submitted or both sets together; the
\* row and the venues need not come from the same call.
C17_FinalStateMixesTheCalls ==
    \A id \in EventIds :
        BothUpdated(id)
            => /\ \E p \in Procs : \E e \in events :
                    /\ e.id = id
                    /\ e = call[p].event
                    /\ EventRowIs(e, e.user_id, call[p].input, SameOrNullForEmpty)
               /\ \E ps \in (SUBSET Procs) \ {{}} :
                    VenueRowsAre(VenuesOf(id), id, SubmittedVenues(ps), SameOrNullForEmpty)

\* Both calls have returned success and the event holds the venues of both.
C17_Witness ==
    /\ BothUpdated(1)
    /\ call["p1"].input # call["p2"].input
    /\ call["p1"].input.venues # <<>>
    /\ call["p2"].input.venues # <<>>
    /\ Cardinality(VenuesOf(1))
         = Len(call["p1"].input.venues) + Len(call["p2"].input.venues)

-----------------------------------------------------------------------------
(* Ownership *)

\* A step in which a createEvent of an authenticated user begins.
CreateBy(p, uid) ==
    /\ Begins(p, "create")
    /\ call'[p].cred = "valid"
    /\ call'[p].user = uid
    /\ uid \in Users

\* C18: an Event row enters the store only through the createEvent of an
\* authenticated user and carries that user's identity as user_id; a row
\* that stays in the store keeps its user_id through every step of every
\* operation, updateEvent included, whoever the caller is.
C18_OwnershipIsPermanent ==
    [][\A new \in events' :
        IF \E old \in events : old.id = new.id
        THEN \A old \in events : old.id = new.id => old.user_id = new.user_id
        ELSE \E p \in Procs : CreateBy(p, new.user_id)]_vars

\* The owner has updated the event, with another name and at another time
\* than it was created with, and the row is still the owner's.
C18_Witness ==
    /\ Done("p1", "update")
    /\ call["p1"].result.success
    /\ call["p1"].user = "u2"
    /\ \E e \in events :
        /\ e.id = call["p1"].id
        /\ e.user_id = "u2"
        /\ e.name = call["p1"].input.name
        /\ e.updated_at = 2

\* A step of an updateEvent or a deleteEvent of p, called for an event that
\* is not the caller's own.
MutationByOther(p, e) ==
    /\ call'[p].op \in {"update", "delete"}
    /\ call'[p] # call[p]
    /\ call[p].pc # "done"
    /\ call'[p].id = e.id
    /\ call'[p].user # e.user_id

\* C19: under the row-level policy of the store, no step of an updateEvent
\* or a deleteEvent whose caller is not the owner of the Event, or has no
\* session, changes the Event row or any of its Venues.
C19_OnlyOwnerMutates ==
    [][\A p \in Procs : \A e \in events :
        MutationByOther(p, e)
            => /\ e \in events'
               /\ \A other \in events' : other.id = e.id => other = e
               /\ {v \in venues' : v.event_id = e.id} = VenuesOf(e.id)]_vars

\* Another user's deleteEvent has returned success and the event, with its
\* venues, is still in the store.
C19_Witness ==
    /\ Done("p1", "delete")
    /\ call["p1"].result.success
    /\ call["p1"].user = "u2"
    /\ \E e \in events : e.id = call["p1"].id /\ e.user_id = "u1"
    /\ VenuesOf(call["p1"].id) # {}

-----------------------------------------------------------------------------
(* Properties of the event form *)

\* C20 as stated: every createEvent or updateEvent call the submit handler of
\* the form issues carries at least one venue.
C20_SubmittedCallHasVenue ==
    \A c \in form.sent : Len(c.input.venues) >= 1

-----------------------------------------------------------------------------
(* createEvent, updateEvent and deleteEvent of two handlers at once *)

\* Two requests of one signed-in user at a time, each a createEvent, an
\* updateEvent or a deleteEvent, with inputs that carry venues.
MutationInputs == {input \in RepeatInputs : Len(input.venues) = 1}

MutationInit ==
    /\ events = {}
    /\ venues = {}
    /\ nextEventId = 1
    /\ nextVenueId = 1
    /\ call = [p \in Procs |-> IdleCall]
    /\ config = [procs |-> Procs, sessions |-> {[cred |-> "valid", user |-> "u1"]},
                 inputs |-> MutationInputs,
                 searches |-> {NoSearch}, sports |-> {Undefined}, track |-> FALSE,
                 ids |-> EventIds]
    /\ lastCall = NoLastCall
    /\ gate = NoGate
    /\ auth = NoAuth
    /\ form = NoForm
    /\ nav = NoNav

MutationNext ==
    \/ \E p \in config.procs : CreateEvent_InsertEvent(p)
    \/ \E p \in config.procs : CreateEvent_InsertVenues(p)
    \/ \E p \in config.procs : UpdateEvent_Update(p)
    \/ \E p \in config.procs : UpdateEvent_DeleteVenues(p)
    \/ \E p \in config.procs : UpdateEvent_InsertVenues(p)
    \/ \E p \in config.procs : DeleteEvent(p)
    \/ \E p \in config.procs : Return(p)

MutationSpec == MutationInit /\ [][MutationNext]_vars

\* C21: in every reachable state, under every interleaving of the steps of
\* createEvent, updateEvent and deleteEvent, every Venue row refers to
\* exactly one Event row that is in the store.
C21_EveryVenueHasItsEvent ==
    \A v \in venues : Cardinality({e \in events : e.id = v.event_id}) = 1

\* An updateEvent wrote the row, the other handler's deleteEvent removed the
\* event, and the venue insert of the updateEvent was refused: no venue is
\* left behind.
C21_Witness ==
    /\ Done("p1", "update")
    /\ call["p1"].result = Failure(ForeignKeyError)
    /\ Done("p2", "delete")
    /\ call["p2"].result.success
    /\ call["p2"].id = call["p1"].id
    /\ \A e \in events : e.id # call["p1"].id
    /\ \A v \in venues : v.event_id # call["p1"].id

\* The input is malformed or misses a required field: an empty name, a name
\* over 100 characters, no sport type, no date-time, a description over 500
\* characters, no venue, a venue with an empty name.
Malformed(data) ==
    \/ Len(data.name) = 0
    \/ Len(data.name) > 100
    \/ data.sport_type = ""
    \/ data.date_time = ""
    \/ Len(data.description) > 500
    \/ Len(data.venues) = 0
    \/ \E i \in 1..Len(data.venues) : Len(data.venues[i].name) = 0

\* C22: when the values submitted in the form are malformed or miss a
\* required field, the submit ends in the form's validation errors: no
\* createEvent or updateEvent call is issued, no store operation begins and
\* the store is unchanged.
C22_MalformedInputIsNotSent ==
    [][(/\ form.phase = "filled"
        /\ form' # form
        /\ \E data \in form.data : Malformed(data))
            => /\ form'.phase = "invalid"
               /\ form'.sent = {}
               /\ UNCHANGED <<storeVars, call>>]_vars

\* A form that is complete but for its venues was submitted and refused.
C22_Witness ==
    /\ form.phase = "invalid"
    /\ form.sent = {}
    /\ \E data \in form.data :
        /\ data.venues = <<>>
        /\ data.name = Summer
        /\ data.sport_type = "Basketball"
        /\ data.date_time = LocalDate
        /\ data.description = <<>>

-----------------------------------------------------------------------------
(* Revalidation of the dashboard *)

\* C23: a createEvent, updateEvent or deleteEvent that has returned has
\* revalidated /dashboard exactly when its result is a success; a call that
\* failed has not, also when it had changed the store before it failed.
C23_RevalidatesIffSuccess ==
    \A p \in Procs :
        (call[p].pc = "done" /\ call[p].op \in {"create", "update", "delete"})
            => (call[p].revalidated <=> call[p].result.success)

\* An updateEvent wrote the event row, failed at its venue delete and has
\* not revalidated.
C23_Witness ==
    /\ Done("p1", "update")
    /\ call["p1"].result = Failure(DeleteError)
    /\ call["p1"].event \in events
    /\ call["p1"].event.updated_at = 2
    /\ ~call["p1"].revalidated

-----------------------------------------------------------------------------
(* updateEvent and deleteEvent for an identifier without a row *)

\* No row under the identifier is visible to the caller.
NoVisibleRow(uid, id) == \A e \in events : e.id = id => ~RowPolicy(uid, e)

\* C24: an updateEvent whose id matches no row visible to the caller ends in
\* its first step with a failure: it reaches neither the venue delete nor the
\* venue insert, and no Event row and no Venue row is changed.
C24_UpdateOfNoRowFails ==
    [][\A p \in Procs :
        (Begins(p, "update") /\ NoVisibleRow(call'[p].user, call'[p].id))
            => /\ call'[p].pc = "done"
               /\ ~call'[p].result.success
               /\ UNCHANGED storeVars]_vars

\* The owner's updateEvent for an event that was deleted has come back with
\* the store's no-row error.
C24_Witness ==
    /\ Done("p1", "update")
    /\ call["p1"].result = Failure(NoRowError)
    /\ call["p1"].user = "u1"
    /\ call["p1"].id < nextEventId
    /\ \A e \in events : e.id # call["p1"].id

\* C25: a deleteEvent whose id matches no row the caller may delete, because
\* there is no such Event or because it was deleted before, leaves the store
\* unchanged and returns success whenever the store answers the request; a
\* deleteEvent that has returned success leaves no such row behind, so a
\* second deleteEvent with the same id is of this kind.
C25_DeleteOfNoRowSucceeds ==
    /\ [][\A p \in Procs :
            (Begins(p, "delete") /\ NoVisibleRow(call'[p].user, call'[p].id))
                => /\ call'[p].pc = "done"
                   /\ call'[p].result \in {Success(Undefined), Failure(EventError)}
                   /\ UNCHANGED storeVars]_vars
    /\ [](\A p \in Procs :
            (Done(p, "delete") /\ call[p].result.success)
                => NoVisibleRow(call[p].user, call[p].id))

\* A deleteEvent for an identifier the store never handed out has returned
\* success.
C25_Witness ==
    /\ Done("p1", "delete")
    /\ call["p1"].result = Success(Undefined)
    /\ call["p1"].revalidated
    /\ call["p1"].id >= nextEventId
    /\ events = {}

-----------------------------------------------------------------------------
(* Navigation alone *)

NavNext ==
    \/ Navigate
    \/ NavMiddleware
    \/ NavPage
    \/ NavDone

NavSpec == Init /\ [][NavNext]_vars /\ WF_vars(NavNext)

InFlight == nav.phase \in {"request", "page"}

\* C26: with the session fixed, a navigation is never redirected to a path it
\* has already asked for, takes at most one redirect, and ends at a page that
\* renders.
C26_NoRedirectLoop ==
    /\ [](nav.phase # "none"
            => /\ \A i \in 1..Len(nav.visited) : nav.visited[i] # nav.path
               /\ \A i, j \in 1..Len(nav.visited) :
                    nav.visited[i] = nav.visited[j] => i = j
               /\ Len(nav.visited) <= 1)
    /\ (InFlight ~> nav.phase = "rendered")

\* A signed-in user asked for the edit page of an event that getEventById
\* did not return, and sees the dashboard.
C26_Witness ==
    /\ nav.phase = "rendered"
    /\ GetUser(nav.session) # NoUser
    /\ nav.visited = <<EditPath>>
    /\ nav.path = DashboardPath

-----------------------------------------------------------------------------
(* The store with two events: what an operation on one leaves of the other *)

FrameInputs == {input \in RepeatInputs : Len(input.venues) <= 1}

\* One request at a time, of one user or of nobody.  The user has created
\* one event with a venue before, and the store hands out one identifier
\* more than MaxEvents.
OtherInput == CHOOSE input \in FrameInputs : Len(input.venues) = 1

FrameInit ==
    /\ events = {NewEventRow(1, "u1", OtherInput, 1)}
    /\ venues = InsertedVenues(VenuesData(1, OtherInput.venues), 1)
    /\ nextEventId = 2
    /\ nextVenueId = 2
    /\ call = [p \in Procs |-> IdleCall]
    /\ config = [procs |-> {"p1"}, sessions |-> {s \in Sessions : s.user # "u2" /\ s.cred # "failed"},
                 inputs |-> FrameInputs,
                 searches |-> {NoSearch}, sports |-> {Undefined}, track |-> FALSE,
                 ids |-> 1..(MaxEvents + 1)]
    /\ lastCall = NoLastCall
    /\ gate = NoGate
    /\ auth = NoAuth
    /\ form = NoForm
    /\ nav = NoNav

FrameSpec == FrameInit /\ [][Next]_vars

\* The Event a call is about: the one createEvent inserted, the one
\* updateEvent or deleteEvent names.
Target(c) == IF c.op = "create" THEN c.event.id ELSE c.id

\* Every Event row but the one with this id, and every Venue of those rows, is
\* after the step what it was before it.
OthersKept(id) ==
    /\ {e \in events' : e.id # id} = {e \in events : e.id # id}
    /\ {v \in venues' : v.event_id # id} = {v \in venues : v.event_id # id}

\* C27: no step of getEvents or getEventById changes the store, and every
\* step of createEvent, updateEvent or deleteEvent, failing or not, leaves
\* the Event rows with another id and their Venues as they were.
C27_Frame ==
    [][\A p \in Procs :
        call'[p] # call[p]
            => IF call'[p].op \in {"create", "update", "delete"}
               THEN OthersKept(Target(call'[p]))
               ELSE UNCHANGED storeVars]_vars

\* An updateEvent has replaced the Venues of one Event while another Event
\* with a Venue is in the store.
C27_Witness ==
    /\ Done("p1", "update")
    /\ call["p1"].result.success
    /\ \E e \in events : e.id # call["p1"].id /\ VenuesOf(e.id) # {}
    /\ \E e \in events : e.id = call["p1"].id /\ VenuesOf(e.id) # {}

====
